---- MODULE Spec2Model ----
(***************************************************************************)
(* The two pipeline definitions of pollination/pmv-comfort-map:            *)
(* ComfortMappingEntryPoint (_comfort.py) and                               *)
(* DynamicContributionEntryPoint (_dynamic.py).                             *)
(*                                                                         *)
(* The declarations (input slots, tasks, needs, loops, sub_paths, argument *)
(* bindings and output mappings) are transcribed from the two classes.     *)
(* The state machine runs one invocation of one of the pipelines: the      *)
(* caller's binding is validated against the slot declarations, tasks are  *)
(* started once the tasks in their `needs` have succeeded, loop tasks are  *)
(* instantiated once per item of the list read by read_grids, every        *)
(* instance's arguments, sub-paths and output destinations are rendered    *)
(* from the declared `{{...}}` templates.                                   *)
(***************************************************************************)
EXTENDS Integers, Sequences, FiniteSets, TLC

VARIABLES
    dag,        \* the pipeline invoked: "comfort" or "dynamic"
    inputs,     \* the binding: input slot name -> value, for the slots that have one
    phase,      \* "new", "accepted" or "rejected"
    scheduled,  \* the tasks whose instances have been created
    inst,       \* task name -> the sequence of its instances
    manifest,   \* the list read_grids has output (loop source)
    written     \* the output artifacts written so far

vars == <<dag, inputs, phase, scheduled, inst, manifest, written>>

(* ------------------------------ bounds ------------------------------- *)

\* longest sensor-grid manifest read_grids may return
MaxItems == 2
\* most input slots a caller's binding leaves out at once
MaxOmitted == 1

(* ------------------------- template strings --------------------------- *)

\* A Python string with `{{...}}` expressions is kept as the sequence of its
\* literal pieces and its expressions, in order.
Lit(s) == [k |-> "lit", v |-> s]
Ref(name) == [k |-> "ref", v |-> name]

\* the expressions a template string contains
Refs(tpl) == {tpl[i].v : i \in {j \in 1..Len(tpl) : tpl[j].k = "ref"}}

\* Substitution of the bound variables `env` (a function from expression
\* names to strings); an expression with no binding stays as written.
RECURSIVE Render(_, _)
Render(tpl, env) ==
    IF tpl = <<>> THEN ""
    ELSE LET h == Head(tpl)
             s == IF h.k = "lit" THEN h.v
                  ELSE IF h.v \in DOMAIN env THEN env[h.v]
                  ELSE "{{" \o h.v \o "}}"
         IN s \o Render(Tail(tpl), env)

(* --------------------------- input slots ------------------------------ *)

\* Inputs.file / Inputs.folder / Inputs.str declarations
\* (extensions: the allow-list of file extensions, <<>> when none is declared)
Slot(type, optional, has_default, default, extensions) ==
    [type |-> type, optional |-> optional, has_default |-> has_default,
     default |-> default, extensions |-> extensions]
Inputs_file(extensions) == Slot("file", FALSE, FALSE, "", extensions)
Inputs_file_optional == Slot("file", TRUE, FALSE, "", <<>>)
Inputs_folder == Slot("folder", FALSE, FALSE, "", <<>>)
Inputs_str == Slot("str", FALSE, FALSE, "", <<>>)
Inputs_str_default(d) == Slot("str", FALSE, TRUE, d, <<>>)

\* ComfortMappingEntryPoint.result_sql
comfort_result_sql_optional == Slot("file", TRUE, FALSE, "", <<"sql", "db", "sqlite">>)
comfort_result_sql == Inputs_file(<<"sql", "db", "sqlite">>)

\* the input slots of ComfortMappingEntryPoint
ComfortInputs ==
    [epw |-> Inputs_file(<<"epw">>),
     result_sql |-> comfort_result_sql,
     grid_name |-> Inputs_str,
     enclosure_info |-> Inputs_file(<<"json">>),
     view_factors |-> Inputs_file(<<"csv">>),
     modifiers |-> Inputs_file(<<"mod", "txt">>),
     indirect_irradiance |-> Inputs_file(<<"ill", "irr">>),
     direct_irradiance |-> Inputs_file(<<"ill", "irr">>),
     ref_irradiance |-> Inputs_file(<<"ill", "irr">>),
     sun_up_hours |-> Inputs_file(<<>>),
     occ_schedules |-> Inputs_file(<<>>),
     run_period |-> Inputs_str_default(""),
     air_speed |-> Inputs_file_optional,
     met_rate |-> Inputs_file_optional,
     clo_value |-> Inputs_file_optional,
     solarcal_parameters |-> Inputs_str_default(
         "--posture seated --sharp 135 --absorptivity 0.7 --emissivity 0.95"),
     comfort_parameters |-> Inputs_str_default("--ppd-threshold 10"),
     write_set_map |-> Inputs_str_default("write-op-map")]

\* the input slots of DynamicContributionEntryPoint
DynamicInputs ==
    [radiance_parameters |-> Inputs_str_default("-ab 2 -ad 5000 -lw 2e-05"),
     result_sql |-> Inputs_file(<<"sql", "db", "sqlite">>),
     octree_file_spec |-> Inputs_file(<<"oct">>),
     octree_file_diff |-> Inputs_file(<<"oct">>),
     octree_file_with_suns |-> Inputs_file(<<"oct">>),
     group_name |-> Inputs_str,
     sensor_grid_folder |-> Inputs_folder,
     sensor_grids |-> Inputs_file(<<>>),
     sky_dome |-> Inputs_file(<<>>),
     sky_matrix |-> Inputs_file(<<>>),
     sky_matrix_direct |-> Inputs_file(<<>>),
     sun_modifiers |-> Inputs_file(<<>>),
     sun_up_hours |-> Inputs_file(<<>>)]

(* ------------------------ argument bindings --------------------------- *)

\* what a task parameter is bound to: a pipeline input slot, an output of
\* another task, or a string value (a template string; numbers as written)
FromInput(slot) == [k |-> "input", slot |-> slot, task |-> "", out |-> "", tpl |-> <<>>]
FromOutput(t, o) == [k |-> "output", slot |-> "", task |-> t, out |-> o, tpl |-> <<>>]
Value(tpl) == [k |-> "value", slot |-> "", task |-> "", out |-> "", tpl |-> tpl]

\* an entry of the list a task function returns
To(from, tpl) == [from |-> from, has_to |-> TRUE, to |-> tpl]
NoPath(from) == [from |-> from, has_to |-> FALSE, to |-> <<>>]

NoLoop == [on |-> FALSE, task |-> "", out |-> ""]
LoopOver(t, o) == [on |-> TRUE, task |-> t, out |-> o]
NoSubPaths == [p \in {} |-> <<>>]

Task(name, template, needs, loop, sub_folder, sub_paths, args, returns) ==
    [name |-> name, template |-> template, needs |-> needs, loop |-> loop,
     sub_folder |-> sub_folder, sub_paths |-> sub_paths, args |-> args,
     returns |-> returns]

(* ------------------- ComfortMappingEntryPoint tasks ------------------- *)

create_longwave_mrt_map ==
    Task("create_longwave_mrt_map", "LongwaveMrtMap", {}, NoLoop, "", NoSubPaths,
         [result_sql |-> FromInput("result_sql"),
          view_factors |-> FromInput("view_factors"),
          modifiers |-> FromInput("modifiers"),
          enclosure_info |-> FromInput("enclosure_info"),
          epw |-> FromInput("epw"),
          run_period |-> FromInput("run_period"),
          name |-> FromInput("grid_name")],
         <<To("longwave_mrt_map",
              <<Lit("conditions/longwave_mrt/"), Ref("self.name"), Lit(".csv")>>)>>)

create_shortwave_mrt_map ==
    Task("create_shortwave_mrt_map", "ShortwaveMrtMap", {}, NoLoop, "", NoSubPaths,
         [epw |-> FromInput("epw"),
          indirect_irradiance |-> FromInput("indirect_irradiance"),
          direct_irradiance |-> FromInput("direct_irradiance"),
          ref_irradiance |-> FromInput("ref_irradiance"),
          sun_up_hours |-> FromInput("sun_up_hours"),
          solarcal_par |-> FromInput("solarcal_parameters"),
          run_period |-> FromInput("run_period"),
          name |-> FromInput("grid_name")],
         <<To("shortwave_mrt_map",
              <<Lit("conditions/shortwave_mrt/"), Ref("self.name"), Lit(".csv")>>)>>)

create_air_temperature_map ==
    Task("create_air_temperature_map", "AirMap", {}, NoLoop, "", NoSubPaths,
         [result_sql |-> FromInput("result_sql"),
          enclosure_info |-> FromInput("enclosure_info"),
          epw |-> FromInput("epw"),
          run_period |-> FromInput("run_period"),
          metric |-> Value(<<Lit("air-temperature")>>),
          name |-> FromInput("grid_name")],
         <<To("air_map",
              <<Lit("conditions/air_temperature/"), Ref("self.name"), Lit(".csv")>>)>>)

create_rel_humidity_map ==
    Task("create_rel_humidity_map", "AirMap", {}, NoLoop, "", NoSubPaths,
         [result_sql |-> FromInput("result_sql"),
          enclosure_info |-> FromInput("enclosure_info"),
          epw |-> FromInput("epw"),
          run_period |-> FromInput("run_period"),
          metric |-> Value(<<Lit("relative-humidity")>>),
          name |-> FromInput("grid_name")],
         <<To("air_map",
              <<Lit("conditions/rel_humidity/"), Ref("self.name"), Lit(".csv")>>)>>)

create_air_speed_json ==
    Task("create_air_speed_json", "AirSpeedJson", {}, NoLoop, "", NoSubPaths,
         [epw |-> FromInput("epw"),
          enclosure_info |-> FromInput("enclosure_info"),
          multiply_by |-> Value(<<Lit("0.5")>>),
          indoor_air_speed |-> FromInput("air_speed"),
          run_period |-> FromInput("run_period"),
          name |-> FromInput("grid_name")],
         <<To("air_speeds",
              <<Lit("conditions/air_speed/"), Ref("self.name"), Lit(".json")>>)>>)

\* needs= of process_pmv_matrix
process_pmv_matrix_needs_no_air_speed ==
    {"create_longwave_mrt_map", "create_shortwave_mrt_map",
     "create_air_temperature_map", "create_rel_humidity_map"}
process_pmv_matrix_needs ==
    {"create_longwave_mrt_map", "create_shortwave_mrt_map",
     "create_air_temperature_map", "create_rel_humidity_map",
     "create_air_speed_json"}

\* the list process_pmv_matrix returns
process_pmv_matrix_returns_same_path ==
    <<To("temperature_map",
         <<Lit("results/temperature/"), Ref("self.name"), Lit(".csv")>>),
      To("condition_map",
         <<Lit("results/condition/"), Ref("self.name"), Lit(".csv")>>),
      To("pmv_map",
         <<Lit("results/condition/"), Ref("self.name"), Lit(".csv")>>)>>
process_pmv_matrix_returns ==
    <<To("temperature_map",
         <<Lit("results/temperature/"), Ref("self.name"), Lit(".csv")>>),
      To("condition_map",
         <<Lit("results/condition/"), Ref("self.name"), Lit(".csv")>>),
      To("pmv_map",
         <<Lit("results/condition_intensity/"), Ref("self.name"), Lit(".csv")>>)>>

process_pmv_matrix ==
    Task("process_pmv_matrix", "PmvMtx", process_pmv_matrix_needs, NoLoop, "",
         NoSubPaths,
         [air_temperature_mtx |-> FromOutput("create_air_temperature_map", "air_map"),
          rel_humidity_mtx |-> FromOutput("create_rel_humidity_map", "air_map"),
          rad_temperature_mtx |-> FromOutput("create_longwave_mrt_map", "longwave_mrt_map"),
          rad_delta_mtx |-> FromOutput("create_shortwave_mrt_map", "shortwave_mrt_map"),
          air_speed_json |-> FromOutput("create_air_speed_json", "air_speeds"),
          met_rate |-> FromInput("met_rate"),
          clo_value |-> FromInput("clo_value"),
          comfort_par |-> FromInput("comfort_parameters"),
          write_set_map |-> FromInput("write_set_map"),
          name |-> FromInput("grid_name")],
         process_pmv_matrix_returns)

\* needs= of compute_tcp
compute_tcp_needs_nothing == {}
compute_tcp_needs == {"process_pmv_matrix"}

compute_tcp ==
    Task("compute_tcp", "Tcp", compute_tcp_needs, NoLoop, "", NoSubPaths,
         [condition_csv |-> FromOutput("process_pmv_matrix", "condition_map"),
          enclosure_info |-> FromInput("enclosure_info"),
          occ_schedule_json |-> FromInput("occ_schedules"),
          name |-> FromInput("grid_name")],
         <<To("tcp", <<Lit("metrics/TCP/"), Ref("self.name"), Lit(".csv")>>),
           To("hsp", <<Lit("metrics/HSP/"), Ref("self.name"), Lit(".csv")>>),
           To("csp", <<Lit("metrics/CSP/"), Ref("self.name"), Lit(".csv")>>)>>)

\* the tasks of ComfortMappingEntryPoint, in declaration order
ComfortTasks ==
    <<create_longwave_mrt_map, create_shortwave_mrt_map,
      create_air_temperature_map, create_rel_humidity_map,
      create_air_speed_json, process_pmv_matrix, compute_tcp>>

(* ----------------- DynamicContributionEntryPoint tasks ---------------- *)

read_grids ==
    Task("read_grids", "ReadJSONList", {}, NoLoop, "", NoSubPaths,
         [src |-> FromInput("sensor_grids")],
         <<NoPath("data")>>)

\* sub_paths= of run_radiance_window_contrib
run_radiance_window_contrib_sub_paths_same_file ==
    [sensor_grid |-> <<Ref("item.full_id"), Lit(".pts")>>,
     ref_sensor_grid |-> <<Ref("item.full_id"), Lit(".pts")>>]
run_radiance_window_contrib_sub_paths_no_item ==
    [sensor_grid |-> <<Lit("grid.pts")>>,
     ref_sensor_grid |-> <<Lit("grid_ref.pts")>>]
run_radiance_window_contrib_sub_paths ==
    [sensor_grid |-> <<Ref("item.full_id"), Lit(".pts")>>,
     ref_sensor_grid |-> <<Ref("item.full_id"), Lit("_ref.pts")>>]

\* the arguments of run_radiance_window_contrib
run_radiance_window_contrib_args_count_from_id ==
    [radiance_parameters |-> FromInput("radiance_parameters"),
     octree_file_spec |-> FromInput("octree_file_spec"),
     octree_file_diff |-> FromInput("octree_file_diff"),
     octree_file_with_suns |-> FromInput("octree_file_with_suns"),
     group_name |-> FromInput("group_name"),
     grid_name |-> Value(<<Ref("item.full_id")>>),
     sensor_grid |-> FromInput("sensor_grid_folder"),
     ref_sensor_grid |-> FromInput("sensor_grid_folder"),
     sensor_count |-> Value(<<Ref("item.full_id")>>),
     sky_dome |-> FromInput("sky_dome"),
     sky_matrix |-> FromInput("sky_matrix"),
     sky_matrix_direct |-> FromInput("sky_matrix"),
     sun_modifiers |-> FromInput("sun_modifiers")]
run_radiance_window_contrib_args ==
    [radiance_parameters |-> FromInput("radiance_parameters"),
     octree_file_spec |-> FromInput("octree_file_spec"),
     octree_file_diff |-> FromInput("octree_file_diff"),
     octree_file_with_suns |-> FromInput("octree_file_with_suns"),
     group_name |-> FromInput("group_name"),
     grid_name |-> Value(<<Ref("item.full_id")>>),
     sensor_grid |-> FromInput("sensor_grid_folder"),
     ref_sensor_grid |-> FromInput("sensor_grid_folder"),
     sensor_count |-> Value(<<Ref("item.count")>>),
     sky_dome |-> FromInput("sky_dome"),
     sky_matrix |-> FromInput("sky_matrix"),
     sky_matrix_direct |-> FromInput("sky_matrix"),
     sun_modifiers |-> FromInput("sun_modifiers")]

run_radiance_window_contrib ==
    Task("run_radiance_window_contrib", "RadianceContribEntryPoint",
         {"read_grids"}, LoopOver("read_grids", "data"), "shortwave",
         run_radiance_window_contrib_sub_paths,
         run_radiance_window_contrib_args,
         <<>>)

\* needs= of run_dynamic_behavior_contrib
run_dynamic_behavior_contrib_needs ==
    {"read_grids", "run_radiance_window_contrib"}

run_dynamic_behavior_contrib ==
    Task("run_dynamic_behavior_contrib", "DynamicBehaviorEntryPoint",
         run_dynamic_behavior_contrib_needs,
         LoopOver("read_grids", "data"), "shortwave",
         [direct_specular |-> <<Ref("item.full_id"), Lit(".ill")>>,
          indirect_specular |-> <<Ref("item.full_id"), Lit(".ill")>>,
          ref_specular |-> <<Ref("item.full_id"), Lit(".ill")>>,
          indirect_diffuse |-> <<Ref("item.full_id"), Lit(".ill")>>,
          ref_diffuse |-> <<Ref("item.full_id"), Lit(".ill")>>],
         [result_sql |-> FromInput("result_sql"),
          direct_specular |-> Value(<<Lit("shortwave/dynamic/initial/"),
                                      Ref("group_name"), Lit("/direct_spec")>>),
          indirect_specular |-> Value(<<Lit("shortwave/dynamic/initial/"),
                                        Ref("group_name"), Lit("/indirect_spec")>>),
          ref_specular |-> Value(<<Lit("shortwave/dynamic/initial/"),
                                   Ref("group_name"), Lit("/reflected_spec")>>),
          indirect_diffuse |-> Value(<<Lit("shortwave/dynamic/initial/"),
                                       Ref("group_name"), Lit("/total_diff")>>),
          ref_diffuse |-> Value(<<Lit("shortwave/dynamic/initial/"),
                                  Ref("group_name"), Lit("/reflected_diff")>>),
          sun_up_hours |-> FromInput("sun_up_hours"),
          aperture_id |-> FromInput("group_name"),
          grid_name |-> Value(<<Ref("item.full_id")>>)],
         <<>>)

\* the tasks of DynamicContributionEntryPoint, in declaration order
DynamicTasks ==
    <<read_grids, run_radiance_window_contrib, run_dynamic_behavior_contrib>>

(* ---------------------------- the pipelines --------------------------- *)

Inputs(d) == IF d = "comfort" THEN ComfortInputs ELSE DynamicInputs
Tasks(d) == IF d = "comfort" THEN ComfortTasks ELSE DynamicTasks
TaskNames(d) == {Tasks(d)[i].name : i \in 1..Len(Tasks(d))}
TaskOf(d, n) == Tasks(d)[CHOOSE i \in 1..Len(Tasks(d)) : Tasks(d)[i].name = n]
Needs(d, n) == TaskOf(d, n).needs

\* the extension of a file name: what follows its last dot ("" without one)
Extension(path) ==
    LET dots == {i \in 1..Len(path) : SubSeq(path, i, i) = "."}
    IN IF dots = {} THEN ""
       ELSE SubSeq(path, (CHOOSE i \in dots : \A j \in dots : j <= i) + 1, Len(path))

\* value v is acceptable for a slot declared as decl: a declared
\* extensions= list holds the extension of the file
ExtensionAllowed(decl, v) ==
    \/ decl.extensions = <<>>
    \/ \E k \in 1..Len(decl.extensions) : decl.extensions[k] = Extension(v)

\* a slot declared without optional=True and without a default
Required(decl) == ~decl.optional /\ ~decl.has_default
RequiredSlots(d) == {s \in DOMAIN Inputs(d) : Required(Inputs(d)[s])}

\* the tasks n transitively needs
RECURSIVE NeedsUpTo(_, _, _)
NeedsUpTo(d, n, k) ==
    IF k = 0 THEN {}
    ELSE Needs(d, n) \cup UNION {NeedsUpTo(d, m, k - 1) : m \in Needs(d, n)}
TransitiveNeeds(d, n) == NeedsUpTo(d, n, Len(Tasks(d)))

(* ------------------------- the caller's inputs ------------------------ *)

\* values a caller may give the sensor-grid name and the aperture group name
GridNames == {"grid_A", "csv"}
GroupNames == {"ApertureGroup_1", "g"}
\* identifiers and items a sensor-grid manifest may hold
GridIds == {"room1_grid", "a", "a_ref"}
Counts == {0, 12}
Items == [full_id : GridIds, count : Counts]
Manifests == UNION {[1..n -> Items] : n \in 0..MaxItems}

\* the value a caller gives slot s of pipeline d; `name` is the value of the
\* one free string slot (grid_name, group_name)
SlotValue(d, s, name) ==
    IF s \in {"grid_name", "group_name"} THEN name
    ELSE IF Inputs(d)[s].type = "str" THEN Inputs(d)[s].default
    ELSE IF Inputs(d)[s].extensions # <<>>
         THEN "/in/" \o s \o "." \o Inputs(d)[s].extensions[1]
    ELSE "/in/" \o s

\* the slots declared with an extensions= allow-list
ExtSlots(d) == {s \in DOMAIN Inputs(d) : Inputs(d)[s].extensions # <<>>}
\* a file for slot s with extension e
FileValue(s, e) == "/in/" \o s \o "." \o e
\* an extension no slot allows
WrongExtension == "dat"

\* the sets of slots a binding may leave out: at most MaxOmitted of them, or
\* every slot that is optional or has a default
RECURSIVE OmitUpTo(_, _)
OmitUpTo(d, k) ==
    IF k = 0 THEN {{}}
    ELSE LET prev == OmitUpTo(d, k - 1)
         IN prev \cup {om \cup {s} : om \in prev, s \in DOMAIN Inputs(d)}
Omissions(d) ==
    OmitUpTo(d, MaxOmitted) \cup {DOMAIN Inputs(d) \ RequiredSlots(d)}

\* the binding that leaves out the slots om and gives every file slot a file
\* of the first extension its declaration allows
PlainBinding(d, om, name) ==
    [s \in DOMAIN Inputs(d) \ om |-> SlotValue(d, s, name)]

\* the bindings of an invocation: plain ones, ones with one file of an
\* extension its slot does not allow, and complete ones with one file of
\* any of the extensions its slot allows
Bindings(d) ==
    LET names == IF d = "comfort" THEN GridNames ELSE GroupNames
    IN {PlainBinding(d, om, name) : om \in Omissions(d), name \in names}
       \cup UNION {
            {[PlainBinding(d, om, name) EXCEPT ![s] = FileValue(s, WrongExtension)] :
                s \in ExtSlots(d) \ om, name \in names}
            : om \in Omissions(d)}
       \cup UNION {
            {[PlainBinding(d, {}, name) EXCEPT ![s] = FileValue(s, Inputs(d)[s].extensions[k])] :
                k \in 1..Len(Inputs(d)[s].extensions), name \in names}
            : s \in ExtSlots(d)}

(* ------------------------- rendering a task --------------------------- *)

NoItem == [full_id |-> "", count |-> 0]

\* the rendered destination of output o of the (single) instance of task n
OutputPath(n, o) ==
    LET t == TaskOf(dag, n)
        k == CHOOSE i \in 1..Len(t.returns) : t.returns[i].from = o
    IN IF inst[n] # <<>> /\ t.returns[k].has_to
       THEN inst[n][1].outputs[k]
       ELSE "tasks." \o n \o "." \o o

\* the value of a parameter whose binding holds no `{{...}}` expression
PlainValue(b) ==
    IF b.k = "input" THEN inputs[b.slot]
    ELSE IF b.k = "output" THEN OutputPath(b.task, b.out)
    ELSE Render(b.tpl, [x \in {} |-> ""])

\* the parameters of task t that `self.<param>` expressions can resolve to
SelfParams(t) ==
    {p \in DOMAIN t.args :
        \/ t.args[p].k = "input" /\ t.args[p].slot \in DOMAIN inputs
        \/ t.args[p].k = "output"
        \/ t.args[p].k = "value" /\ Refs(t.args[p].tpl) = {}}

\* the variables bound when task t is rendered: its own parameters as
\* self.<param> and, in a loop, the fields of the current item
Env(t, item) ==
    LET names == {"self." \o p : p \in SelfParams(t)}
        self == [n \in names |->
                    PlainValue(t.args[CHOOSE p \in SelfParams(t) : "self." \o p = n])]
    IN IF t.loop.on
       THEN self @@ ("item.full_id" :> item.full_id) @@
                    ("item.count" :> ToString(item.count))
       ELSE self

\* the value parameter p of task t receives
ArgValue(t, p, item) ==
    LET b == t.args[p]
    IN IF b.k = "input"
       THEN IF b.slot \in DOMAIN inputs THEN inputs[b.slot] ELSE ""
       ELSE IF b.k = "output" THEN OutputPath(b.task, b.out)
       ELSE Render(b.tpl, Env(t, item))

\* the file parameter p resolves to: its value, extended by its sub_path
Resolved(t, p, item) ==
    IF p \in DOMAIN t.sub_paths
    THEN ArgValue(t, p, item) \o "/" \o Render(t.sub_paths[p], Env(t, item))
    ELSE ArgValue(t, p, item)

\* every template string of task t: parameter values, sub_paths, destinations
Templates(t) ==
    {t.args[p].tpl : p \in {q \in DOMAIN t.args : t.args[q].k = "value"}}
    \cup {t.sub_paths[p] : p \in DOMAIN t.sub_paths}
    \cup {t.returns[i].to : i \in {j \in 1..Len(t.returns) : t.returns[j].has_to}}

\* an instance of task t for `item`, in state st
Instance(t, item, st) ==
    [st |-> st,
     item |-> item,
     args |-> [p \in DOMAIN t.args |-> ArgValue(t, p, item)],
     sub_paths |-> [p \in DOMAIN t.sub_paths |->
                        Render(t.sub_paths[p], Env(t, item))],
     resolved |-> [p \in DOMAIN t.args |-> Resolved(t, p, item)],
     outputs |-> [i \in 1..Len(t.returns) |-> Render(t.returns[i].to, Env(t, item))],
     unbound |-> UNION {Refs(tpl) : tpl \in Templates(t)} \ DOMAIN Env(t, item)]

(* ---------------------------- the execution --------------------------- *)

\* the items of the list a loop iterates over
LoopItems(t) == manifest

Succeeded(n) ==
    /\ n \in scheduled
    /\ \A i \in 1..Len(inst[n]) : inst[n][i].st = "succeeded"
Failed(n) == \E i \in 1..Len(inst[n]) : inst[n][i].st = "failed"
\* instance i of task n has started (it runs, or has ended)
Started(n, i) == inst[n][i].st \in {"running", "succeeded", "failed"}

Eligible(n) ==
    /\ phase = "accepted"
    /\ n \notin scheduled
    /\ \A m \in Needs(dag, n) : Succeeded(m)

Init ==
    /\ dag \in {"comfort", "dynamic"}
    /\ inputs \in Bindings(dag)
    /\ phase = "new"
    /\ scheduled = {}
    /\ inst = [n \in TaskNames(dag) |-> <<>>]
    /\ manifest = <<>>
    /\ written = {}

\* the binding supplies every required slot, and every file of a slot with
\* an extensions= list has one of the listed extensions
ValidBinding ==
    /\ RequiredSlots(dag) \subseteq DOMAIN inputs
    /\ \A s \in DOMAIN inputs : ExtensionAllowed(Inputs(dag)[s], inputs[s])

\* the binding is valid: defaults fill the slots left out
Accept ==
    /\ phase = "new"
    /\ ValidBinding
    /\ phase' = "accepted"
    /\ inputs' = [s \in DOMAIN inputs \cup
                        {x \in DOMAIN Inputs(dag) : Inputs(dag)[x].has_default} |->
                    IF s \in DOMAIN inputs THEN inputs[s]
                    ELSE Inputs(dag)[s].default]
    /\ UNCHANGED <<dag, scheduled, inst, manifest, written>>

\* a required slot is missing or a file lacks an allowed extension: the
\* invocation is rejected
Reject ==
    /\ phase = "new"
    /\ ~ValidBinding
    /\ phase' = "rejected"
    /\ UNCHANGED <<dag, inputs, scheduled, inst, manifest, written>>

\* a task without a loop starts
Start(n) ==
    /\ Eligible(n)
    /\ ~TaskOf(dag, n).loop.on
    /\ scheduled' = scheduled \cup {n}
    /\ inst' = [inst EXCEPT ![n] = <<Instance(TaskOf(dag, n), NoItem, "running")>>]
    /\ UNCHANGED <<dag, inputs, phase, manifest, written>>

\* a task with a loop is instantiated once per item of its loop source
FanOut(n) ==
    /\ Eligible(n)
    /\ TaskOf(dag, n).loop.on
    /\ scheduled' = scheduled \cup {n}
    /\ inst' = [inst EXCEPT ![n] =
                   [i \in 1..Len(LoopItems(TaskOf(dag, n))) |->
                       Instance(TaskOf(dag, n), LoopItems(TaskOf(dag, n))[i], "ready")]]
    /\ UNCHANGED <<dag, inputs, phase, manifest, written>>

\* a loop instance starts
StartInstance(n, i) ==
    /\ inst[n][i].st = "ready"
    /\ inst' = [inst EXCEPT ![n][i].st = "running"]
    /\ UNCHANGED <<dag, inputs, phase, scheduled, manifest, written>>

\* The result folders of the RadianceContribEntryPoint sub-pipeline
\* (_radcontrib.py), one per category of illuminance result.
RadianceContribCategories ==
    {"direct_spec", "indirect_spec", "reflected_spec", "total_diff", "reflected_diff"}

\* The files an instance of the RadianceContribEntryPoint sub-pipeline leaves
\* under the task's sub_folder: for each category the result of its grid,
\* <sub_folder>/dynamic/initial/<group_name>/<category>/<grid_name>.ill
RadianceContribArtifacts(n, i) ==
    {[task |-> n, from |-> c,
      path |-> TaskOf(dag, n).sub_folder \o "/dynamic/initial/" \o
               inst[n][i].args["group_name"] \o "/" \o c \o "/" \o
               inst[n][i].args["grid_name"] \o ".ill"] :
        c \in RadianceContribCategories}

\* an instance ends successfully: its output artifacts are written to their
\* destinations (a sub-pipeline leaves its results in the sub_folder);
\* read_grids outputs the list it read
Succeed(n, i) ==
    /\ inst[n][i].st = "running"
    /\ inst' = [inst EXCEPT ![n][i].st = "succeeded"]
    /\ written' = written \cup
          {[task |-> n, from |-> TaskOf(dag, n).returns[k].from,
            path |-> inst[n][i].outputs[k]] :
              k \in {j \in 1..Len(TaskOf(dag, n).returns) :
                        TaskOf(dag, n).returns[j].has_to}}
          \cup (IF TaskOf(dag, n).template = "RadianceContribEntryPoint"
                THEN RadianceContribArtifacts(n, i)
                ELSE {})
    /\ IF TaskOf(dag, n).template = "ReadJSONList"
       THEN manifest' \in Manifests
       ELSE manifest' = manifest
    /\ UNCHANGED <<dag, inputs, phase, scheduled>>

\* an instance fails
Fail(n, i) ==
    /\ inst[n][i].st = "running"
    /\ inst' = [inst EXCEPT ![n][i].st = "failed"]
    /\ UNCHANGED <<dag, inputs, phase, scheduled, manifest, written>>

Next ==
    \/ Accept
    \/ Reject
    \/ \E n \in TaskNames(dag) : Start(n)
    \/ \E n \in TaskNames(dag) : FanOut(n)
    \/ \E n \in TaskNames(dag) : \E i \in 1..Len(inst[n]) : StartInstance(n, i)
    \/ \E n \in TaskNames(dag) : \E i \in 1..Len(inst[n]) : Succeed(n, i)
    \/ \E n \in TaskNames(dag) : \E i \in 1..Len(inst[n]) : Fail(n, i)

Spec == Init /\ [][Next]_vars

(* ------------------------------ properties ---------------------------- *)

\* s contains sub as a substring
Contains(s, sub) ==
    \E i \in 1..(Len(s) - Len(sub) + 1) : SubSeq(s, i, i + Len(sub) - 1) = sub

\* s begins with pre
StartsWith(s, pre) == Len(pre) <= Len(s) /\ SubSeq(s, 1, Len(pre)) = pre

RAD == "run_radiance_window_contrib"
DYN == "run_dynamic_behavior_contrib"
PMV == "process_pmv_matrix"
TCP == "compute_tcp"

\* the five per-sensor map tasks of the comfort pipeline
MapTasks ==
    {"create_longwave_mrt_map", "create_shortwave_mrt_map",
     "create_air_temperature_map", "create_rel_humidity_map",
     "create_air_speed_json"}

\* some instance of task n has started
AnyStarted(n) == \E i \in 1..Len(inst[n]) : Started(n, i)

\* C1: a task (or any loop instance of it) starts only after every task in
\* its needs has succeeded: process_pmv_matrix after the five map tasks,
\* compute_tcp after process_pmv_matrix, every run_dynamic_behavior_contrib
\* instance after read_grids and every run_radiance_window_contrib instance;
\* and no task that transitively needs a failed task has started.
C1_StartsAfterNeeds ==
    /\ dag = "comfort" =>
          /\ AnyStarted(PMV) =>
                /\ Succeeded("create_longwave_mrt_map")
                /\ Succeeded("create_shortwave_mrt_map")
                /\ Succeeded("create_air_temperature_map")
                /\ Succeeded("create_rel_humidity_map")
                /\ Succeeded("create_air_speed_json")
          /\ AnyStarted(TCP) => Succeeded(PMV)
          /\ \A m \in MapTasks \cup {PMV} :
                Failed(m) => ~AnyStarted(TCP)
          /\ \A m \in MapTasks : Failed(m) => ~AnyStarted(PMV)
    /\ dag = "dynamic" =>
          /\ AnyStarted(RAD) => Succeeded("read_grids")
          /\ AnyStarted(DYN) =>
                /\ Succeeded("read_grids")
                /\ RAD \in scheduled
                /\ \A i \in 1..Len(inst[RAD]) : inst[RAD][i].st = "succeeded"
          /\ Failed("read_grids") => ~AnyStarted(RAD) /\ ~AnyStarted(DYN)
          /\ Failed(RAD) => ~AnyStarted(DYN)
    /\ \A n \in TaskNames(dag) :
          /\ AnyStarted(n) => \A m \in Needs(dag, n) : Succeeded(m)
          /\ \A m \in TransitiveNeeds(dag, n) : Failed(m) => ~AnyStarted(n)

\* an instance of run_dynamic_behavior_contrib runs while another is still to
\* start, after both instances of run_radiance_window_contrib succeeded
C1_Witness ==
    /\ dag = "dynamic"
    /\ Len(manifest) = 2
    /\ DYN \in scheduled
    /\ inst[DYN][1].st = "ready"
    /\ inst[DYN][2].st = "running"
    /\ Succeeded(RAD)

\* C2: ComfortMappingEntryPoint declares exactly 7 tasks, its needs relation
\* is acyclic, process_pmv_matrix needs exactly the five map tasks,
\* compute_tcp needs exactly process_pmv_matrix, the other five need nothing.
C2_ComfortGraph ==
    dag = "comfort" =>
        /\ Len(Tasks(dag)) = 7
        /\ Cardinality(TaskNames(dag)) = 7
        /\ DOMAIN inst = TaskNames(dag)
        /\ \A n \in TaskNames(dag) :
              /\ Needs(dag, n) \subseteq TaskNames(dag)
              /\ n \notin TransitiveNeeds(dag, n)
        /\ Needs(dag, PMV) =
              {"create_longwave_mrt_map", "create_shortwave_mrt_map",
               "create_air_temperature_map", "create_rel_humidity_map",
               "create_air_speed_json"}
        /\ Needs(dag, TCP) = {PMV}
        /\ \A n \in TaskNames(dag) \ {PMV, TCP} : Needs(dag, n) = {}

\* an accepted invocation of the comfort pipeline has run all 7 tasks
C2_Witness ==
    /\ dag = "comfort"
    /\ phase = "accepted"
    /\ scheduled = TaskNames(dag)
    /\ Succeeded(TCP)

\* the destinations the tasks of the pipeline declare, rendered for the binding
Destinations ==
    UNION {
        {[task |-> Tasks(dag)[i].name, from |-> Tasks(dag)[i].returns[k].from,
          path |-> Render(Tasks(dag)[i].returns[k].to, Env(Tasks(dag)[i], NoItem))] :
            k \in 1..Len(Tasks(dag)[i].returns)}
        : i \in 1..Len(Tasks(dag))}

\* C3: for an accepted binding of ComfortMappingEntryPoint the 11 declared
\* destinations render to pairwise distinct paths that contain the grid name
\* (conditions/ for the five map tasks, results/ for process_pmv_matrix,
\* metrics/ for compute_tcp), and no path is written by two outputs.
C3_DistinctDestinations ==
    (dag = "comfort" /\ phase = "accepted") =>
        /\ Cardinality(Destinations) = 11
        /\ Cardinality({w.path : w \in Destinations}) = 11
        /\ \A w \in Destinations :
              /\ Contains(w.path, inputs["grid_name"])
              /\ ~Contains(w.path, "{{")
              /\ w.task \in MapTasks => StartsWith(w.path, "conditions/")
              /\ w.task = PMV => StartsWith(w.path, "results/")
              /\ w.task = TCP => StartsWith(w.path, "metrics/")
        /\ written \subseteq Destinations
        /\ \A w1, w2 \in written : w1.path = w2.path => w1 = w2
        /\ (inputs["grid_name"] = "grid_A" /\ Succeeded(PMV)) =>
              [task |-> PMV, from |-> "condition_map",
               path |-> "results/condition/grid_A.csv"] \in written

\* all 11 artifacts of a run for grid_A have been written
C3_Witness ==
    /\ dag = "comfort"
    /\ Cardinality(written) = 11
    /\ inputs["grid_name"] = "grid_A"

\* the sub-paths instance i of loop task n resolves
SubPathFiles(n, i) ==
    {inst[n][i].resolved[p] : p \in DOMAIN inst[n][i].sub_paths}

\* C4 as stated: no two instances of a loop task created for different
\* manifest items resolve to the same sub-path.
C4_DifferentItemsNeverCollide ==
    dag = "dynamic" =>
        \A n \in {RAD, DYN} : \A i, j \in 1..Len(inst[n]) :
            (i # j /\ inst[n][i].item # inst[n][j].item) =>
                SubPathFiles(n, i) \cap SubPathFiles(n, j) = {}

\* C4 amended: two instances of a loop task created for items with
\* different full_id resolve every sub_paths parameter to different
\* sub-paths, so their sub_paths bindings differ; for
\* run_dynamic_behavior_contrib no file of one is a file of the other.
C4_DistinctIdsDistinctSubPaths ==
    dag = "dynamic" =>
        \A n \in {RAD, DYN} : \A i, j \in 1..Len(inst[n]) :
            (i # j /\ inst[n][i].item.full_id # inst[n][j].item.full_id) =>
                /\ \A p \in DOMAIN inst[n][i].sub_paths :
                      /\ inst[n][i].sub_paths[p] # inst[n][j].sub_paths[p]
                      /\ inst[n][i].resolved[p] # inst[n][j].resolved[p]
                /\ inst[n][i].sub_paths # inst[n][j].sub_paths
                /\ n = DYN => SubPathFiles(n, i) \cap SubPathFiles(n, j) = {}

\* two instances of run_radiance_window_contrib for different grids run at
\* the same time
C4_Witness ==
    /\ dag = "dynamic"
    /\ Len(inst[RAD]) = 2
    /\ inst[RAD][1].item.full_id # inst[RAD][2].item.full_id
    /\ inst[RAD][1].st = "running"
    /\ inst[RAD][2].st = "running"

\* C5: once instantiated, run_radiance_window_contrib and
\* run_dynamic_behavior_contrib each have exactly one instance per manifest
\* item, in manifest order; instance i receives grid_name = full_id of item i
\* and, for run_radiance_window_contrib, sensor_count = count of item i.
C5_OneInstancePerItem ==
    dag = "dynamic" =>
        \A n \in {RAD, DYN} : n \in scheduled =>
            /\ Len(inst[n]) = Len(manifest)
            /\ \A i \in 1..Len(manifest) :
                  /\ inst[n][i].item = manifest[i]
                  /\ inst[n][i].args["grid_name"] = manifest[i].full_id
                  /\ n = RAD =>
                        inst[n][i].args["sensor_count"] = ToString(manifest[i].count)

\* both loop tasks are instantiated for a manifest of two grids with
\* different sensor counts
C5_Witness ==
    /\ dag = "dynamic"
    /\ Len(manifest) = 2
    /\ manifest[1].count # manifest[2].count
    /\ manifest[1].full_id # manifest[2].full_id
    /\ {RAD, DYN} \subseteq scheduled

\* C6: the run_radiance_window_contrib instance for an item with full_id X
\* resolves sensor_grid to X.pts and ref_sensor_grid to X_ref.pts under the
\* sensor_grid_folder input, and the two differ.
C6_SensorGridFiles ==
    dag = "dynamic" =>
        \A i \in 1..Len(inst[RAD]) :
            LET X == inst[RAD][i].item.full_id
                r == inst[RAD][i]
            IN /\ r.sub_paths["sensor_grid"] = X \o ".pts"
               /\ r.sub_paths["ref_sensor_grid"] = X \o "_ref.pts"
               /\ r.resolved["sensor_grid"] =
                     inputs["sensor_grid_folder"] \o "/" \o X \o ".pts"
               /\ r.resolved["ref_sensor_grid"] =
                     inputs["sensor_grid_folder"] \o "/" \o X \o "_ref.pts"
               /\ r.resolved["sensor_grid"] # r.resolved["ref_sensor_grid"]
               /\ X = "room1_grid" =>
                     /\ r.sub_paths["sensor_grid"] = "room1_grid.pts"
                     /\ r.sub_paths["ref_sensor_grid"] = "room1_grid_ref.pts"

\* the instance for room1_grid has started
C6_Witness ==
    /\ dag = "dynamic"
    /\ \E i \in 1..Len(inst[RAD]) :
          /\ inst[RAD][i].item.full_id = "room1_grid"
          /\ Started(RAD, i)

\* the slots the pipelines may be invoked without
OptionalSlots == {"air_speed", "met_rate", "clo_value"}
DefaultedSlots ==
    {"run_period", "solarcal_parameters", "comfort_parameters", "write_set_map",
     "radiance_parameters"}

\* every file the binding supplies has an extension its slot allows
FilesHaveAllowedExtensions ==
    \A s \in DOMAIN inputs : ExtensionAllowed(Inputs(dag)[s], inputs[s])

\* C7: no task starts while a required slot (one that is neither optional
\* nor defaulted, e.g. result_sql) is unbound: such an invocation is
\* rejected; a binding (of files with allowed extensions) that omits only
\* optional or defaulted slots is not.
C7_RequiredSlotsChecked ==
    LET required == DOMAIN Inputs(dag) \ (OptionalSlots \cup DefaultedSlots)
    IN /\ "result_sql" \in required
       /\ scheduled # {} => required \subseteq DOMAIN inputs
       /\ (phase # "new" /\ ~(required \subseteq DOMAIN inputs)) =>
             phase = "rejected"
       /\ phase = "rejected" =>
             /\ scheduled = {}
             /\ \A n \in TaskNames(dag) : inst[n] = <<>>
       /\ (required \subseteq DOMAIN inputs /\ FilesHaveAllowedExtensions) =>
             phase # "rejected"

\* an invocation without result_sql has been rejected
C7_Witness ==
    /\ phase = "rejected"
    /\ DOMAIN Inputs(dag) \ DOMAIN inputs = {"result_sql"}
    /\ FilesHaveAllowedExtensions

\* the outputs task n of pipeline d declares
OutputsOf(d, n) ==
    {TaskOf(d, n).returns[k].from : k \in 1..Len(TaskOf(d, n).returns)}

\* the file instance i of task n reads for parameter p was written by a task
\* in the needs of n
Materialized(n, i, path) ==
    \E w \in written : w.task \in Needs(dag, n) /\ w.path = path

\* C8: every parameter source and every loop source is a pipeline input slot
\* or an output of a task in the task's own needs, so that every file a
\* started instance reads from a task (an upstream output, or a path under
\* shortwave/dynamic/initial/... extended by its sub_path) has been
\* written by a task in its needs.
C8_ReadsAreMaterialized ==
    \A n \in TaskNames(dag) :
        LET t == TaskOf(dag, n)
        IN /\ \A p \in DOMAIN t.args :
                 /\ t.args[p].k = "input" => t.args[p].slot \in DOMAIN Inputs(dag)
                 /\ t.args[p].k = "output" =>
                       /\ t.args[p].task \in t.needs
                       /\ t.args[p].out \in OutputsOf(dag, t.args[p].task)
           /\ t.loop.on =>
                 /\ t.loop.task \in t.needs
                 /\ t.loop.out \in OutputsOf(dag, t.loop.task)
           /\ \A i \in 1..Len(inst[n]) : Started(n, i) =>
                 /\ t.loop.on => Succeeded(t.loop.task)
                 /\ \A p \in DOMAIN t.args :
                       /\ t.args[p].k = "output" =>
                             /\ Succeeded(t.args[p].task)
                             /\ Materialized(n, i, inst[n][i].resolved[p])
                       /\ (t.args[p].k = "value" /\ p \in DOMAIN t.sub_paths) =>
                             Materialized(n, i, inst[n][i].resolved[p])

\* the input slots some task of pipeline d consumes
ConsumedSlots(d) ==
    UNION {
        {Tasks(d)[i].args[p].slot :
            p \in {q \in DOMAIN Tasks(d)[i].args : Tasks(d)[i].args[q].k = "input"}}
        : i \in 1..Len(Tasks(d))}

\* C9: every run_radiance_window_contrib instance receives the pipeline's
\* sky_dome, sky_matrix, sky_matrix_direct and sun_modifiers inputs in the
\* like-named parameters, and every declared input is consumed by a task.
C9_SkyInputsPassedThrough ==
    dag = "dynamic" =>
        \A i \in 1..Len(inst[RAD]) :
            /\ inst[RAD][i].args["sky_dome"] = inputs["sky_dome"]
            /\ inst[RAD][i].args["sky_matrix"] = inputs["sky_matrix"]
            /\ inst[RAD][i].args["sky_matrix_direct"] = inputs["sky_matrix_direct"]
            /\ inst[RAD][i].args["sun_modifiers"] = inputs["sun_modifiers"]
            /\ \A p, q \in {"sky_dome", "sky_matrix", "sky_matrix_direct",
                             "sun_modifiers"} :
                  p # q => inst[RAD][i].args[p] # inst[RAD][i].args[q]
            /\ DOMAIN Inputs(dag) \subseteq ConsumedSlots(dag)

\* C10: every `{{...}}` expression of a task's parameter values, sub_paths
\* and destinations is bound when the task or loop instance is rendered.
C10_NoUnboundExpression ==
    \A n \in TaskNames(dag) : \A i \in 1..Len(inst[n]) :
        /\ inst[n][i].unbound = {}
        /\ \A p \in DOMAIN inst[n][i].args : ~Contains(inst[n][i].args[p], "{{")

====
